---------------------------- MODULE Spec2Model ----------------------------
(***************************************************************************)
(* Verification model of the tournament-tracker meta statistics code:      *)
(*   - assignTiers  (static/js/lib/tiers.js)                               *)
(*   - get_epoch_for_date  (docs/02_data_model.md, "Epoch Mapping Rules")  *)
(*   - the faction aggregator and the derived metrics of the stats engine  *)
(*   - createApi  (static/js/lib/api.js)                                   *)
(*   - tierLabel, tierColor  (static/js/lib/tiers.js)                      *)
(*   - App  (static/js/app.js), EventDetail  (static/js/events.js),        *)
(*     FactionChart  (static/js/chart.js)                                  *)
(*                                                                         *)
(* Array indices of the JavaScript code are 0-based; TLA+ sequences are    *)
(* 1-based, so the item at sequence position i carries idx = i - 1.        *)
(* Percentiles r/(n-1) are compared with the cut points as exact rationals *)
(* (cut points in hundredths): IEEE division is correctly rounded and the  *)
(* cut literals are the doubles nearest 0.15, 0.40, 0.70, 0.90, so for the *)
(* sizes modelled the floating-point comparison pct <= cut agrees with     *)
(* 100 * r <= cut100 * (n - 1).                                            *)
(***************************************************************************)
EXTENDS Integers, Sequences, FiniteSets, Bags, TLC

VARIABLES
    factions,    \* argument of assignTiers: sequence of [val, count]
    qualifying,  \* local `qualifying` of assignTiers after the sort
    tiers,       \* object returned by assignTiers (function idx -> tier)
    pc,          \* "ready" (arguments chosen) / "done" (call returned)
    ref,         \* an earlier call kept for comparison: [kind, args, result, mid]
    boundaries,  \* argument `events` of get_epoch_for_date: seq of [id, date]
    resolved,    \* results of get_epoch_for_date so far: date -> epoch id
    fed,         \* bag of the placement records the aggregator has consumed
    counters,    \* FactionCounters so far: faction name -> counters
    skipped,     \* skipped-record diagnostics: bag of the invalid records
    snapshot,    \* result of compute: faction name -> FactionStats
    call,        \* last call of a createApi method: [method, args...]
    outcome,     \* what that call did: url fetched, promise state, body use
    badge,       \* last use of tierLabel / tierColor: indices, labels, colours
    app,         \* state of the App component (its useState cells)
    net,         \* requests of App in flight or settled but not yet handled
    detail,      \* state of the EventDetail component and its requests
    chart        \* FactionChart: props, chartInstance ref, Chart objects made

tierVars == <<factions, qualifying, tiers, pc, ref>>
epochVars == <<boundaries, resolved>>
aggVars == <<fed, counters, skipped, snapshot>>
apiVars == <<call, outcome>>
uiVars == <<badge, app, net, detail, chart>>

vars == <<factions, qualifying, tiers, pc, ref, boundaries, resolved,
          fed, counters, skipped, snapshot, call, outcome,
          badge, app, net, detail, chart>>

---------------------------------------------------------------------------
(* Bounds of the model *)

MaxLen == 4       \* longest exhaustively enumerated faction list
MaxVal == 1       \* largest value in the exhaustive lists (values 0..MaxVal)
MaxN == 21        \* longest structured (strided) faction list
MaxStride == 3    \* largest stride of the structured lists
MaxGap == 2       \* structured lists: every (gap+1)-th faction unqualified
MaxRelLen == 3    \* longest exhaustive list in the transform specification
MaxAgainLen == 2  \* longest list in the repeated-call specification
MaxScale == 2     \* order-preserving transforms: v -> a*v + b (+ g above t)
MaxShift == 1
MaxEvents == 3    \* most significant events in a boundary list
MaxDate == 4      \* dates are day numbers 0..MaxDate

---------------------------------------------------------------------------
(* tiers.js *)

\* getValue(f) returning undefined (a missing value); real values are >= 0
Missing == -1

\* TIER_CUTS = [0.15, 0.40, 0.70, 0.90], in hundredths
TIER_CUTS == <<15, 40, 70, 90>>

\* it.count >= 3
QUALIFY_MIN == 3

\* tier given to entries the ranking loop left undefined
D_TIER == 4

\* factions.map(function(f, i) { return { idx: i, val: getValue(f), count: f.count }; })
Items(fs) ==
    [i \in 1..Len(fs) |-> [idx |-> i - 1, val |-> fs[i].val, count |-> fs[i].count]]

QualifiesFromTwo(it) == it.count >= QUALIFY_MIN - 1

\* items.filter(function(it) { return it.count >= 3; })
Qualifies(it) == it.count >= QUALIFY_MIN

KeepAll(items) == items

Filter(items) == SelectSeq(items, Qualifies)

CompareAscending(a, b) ==
    IF a.val = Missing \/ b.val = Missing THEN 0 ELSE a.val - b.val

CompareCoarse(a, b) ==
    IF a.val = Missing \/ b.val = Missing THEN 0
    ELSE IF b.val - a.val \in -1..1 THEN 0 ELSE b.val - a.val

\* function(a, b) { return b.val - a.val; }  -- NaN when a value is
\* undefined, which Array.prototype.sort treats as +0
Compare(a, b) ==
    IF a.val = Missing \/ b.val = Missing THEN 0 ELSE b.val - a.val

\* The comparator is a consistent comparison function for the items unless
\* an undefined value (equal to everything) sits beside two different numbers.
Consistent(items) ==
    ~ \E i, j, k \in 1..Len(items) :
        /\ items[i].val = Missing
        /\ items[j].val # Missing
        /\ items[k].val # Missing
        /\ items[j].val # items[k].val

\* stable insertion: x goes behind every element that does not sort after it
RECURSIVE Insert(_, _)
Insert(x, s) ==
    IF s = <<>> THEN <<x>>
    ELSE IF Compare(Head(s), x) <= 0 THEN <<Head(s)>> \o Insert(x, Tail(s))
    ELSE <<x>> \o s

RECURSIVE StableSort(_)
StableSort(s) ==
    IF s = <<>> THEN <<>>
    ELSE Insert(s[Len(s)], StableSort(SubSeq(s, 1, Len(s) - 1)))

Orderings(s) ==
    { [i \in 1..Len(s) |-> s[p[i]]] :
        p \in { q \in [1..Len(s) -> 1..Len(s)] :
                  \A a, b \in 1..Len(s) : a # b => q[a] # q[b] } }

\* qualifying.sort(cmp): stable (ECMAScript 2019) for a consistent
\* comparator, implementation-defined order otherwise
SortOutcomes(s) ==
    IF Consistent(s) THEN { StableSort(s) } ELSE Orderings(s)

PctElseOne(r, n) == IF n > 1 THEN [num |-> r, den |-> n - 1] ELSE [num |-> 1, den |-> 1]

\* var pct = n > 1 ? r / (n - 1) : 0;   as a fraction num/den
Pct(r, n) == IF n > 1 THEN [num |-> r, den |-> n - 1] ELSE [num |-> 0, den |-> 1]

LtCut(p, c) == 100 * p.num < TIER_CUTS[c + 1] * p.den

\* pct <= TIER_CUTS[c]
LeqCut(p, c) == 100 * p.num <= TIER_CUTS[c + 1] * p.den

\* the if / else-if chain of the ranking loop
TierOf(r, n) ==
    LET pct == Pct(r, n) IN
    IF LeqCut(pct, 0) THEN 0
    ELSE IF LeqCut(pct, 1) THEN 1
    ELSE IF LeqCut(pct, 2) THEN 2
    ELSE IF LeqCut(pct, 3) THEN 3
    ELSE 4

StaleTiers == tiers

\* var tiers = {};
EmptyTiers == [j \in {} |-> 0]

\* for (r = 0; r < n; r++) { ...; tiers[qualifying[r].idx] = tier; }
RECURSIVE RankLoop(_, _, _)
RankLoop(t, q, r) ==
    IF r >= Len(q) THEN t
    ELSE RankLoop((q[r + 1].idx :> TierOf(r, Len(q))) @@ t, q, r + 1)

RECURSIVE FillLoopShort(_, _, _)
FillLoopShort(t, len, j) ==
    IF j >= len - 1 THEN t
    ELSE FillLoopShort(IF j \in DOMAIN t THEN t ELSE (j :> D_TIER) @@ t, len, j + 1)

\* for (j = 0; j < items.length; j++) { if (tiers[j] === undefined) tiers[j] = 4; }
RECURSIVE FillLoop(_, _, _)
FillLoop(t, len, j) ==
    IF j >= len THEN t
    ELSE FillLoop(IF j \in DOMAIN t THEN t ELSE (j :> D_TIER) @@ t, len, j + 1)

\* assignTiers after the sort produced the order q
TiersFor(fs, q) == FillLoop(RankLoop(EmptyTiers, q, 0), Len(fs), 0)

---------------------------------------------------------------------------
(* Inputs of assignTiers *)

Values == (0..MaxVal) \cup {Missing}

\* counts on both sides of the qualification count
Faction == [val : Values, count : (QUALIFY_MIN - 1)..QUALIFY_MIN]

SeqsUpTo(S, n) == UNION { [1..k -> S] : k \in 0..n }

\* every list of at most MaxLen factions
SmallInputs == SeqsUpTo(Faction, MaxLen)

\* lists of n factions whose values step through 0..n-1 with a stride
\* (distinct values when the stride is coprime to n, ties otherwise);
\* with gap g > 0 every (g+1)-th faction is below the qualification count
Strided(n, s, g) ==
    [i \in 1..n |->
        [val |-> ((i - 1) * s) % n,
         count |-> IF g > 0 /\ i % (g + 1) = 0 THEN QUALIFY_MIN - 1
                   ELSE QUALIFY_MIN + (i % 2)]]

StridedInputs ==
    { Strided(n, s, g) : n \in 1..MaxN, s \in 1..MaxStride, g \in 0..MaxGap }

NoRef == [kind |-> "none", args |-> <<>>, result |-> <<>>, mid |-> <<>>]

InitEpochIdle ==
    /\ boundaries = <<>>
    /\ resolved = <<>>

NoCall == [method |-> "none"]

NoSnapshot == [done |-> FALSE]

InitAggIdle ==
    /\ fed = EmptyBag
    /\ counters = <<>>
    /\ skipped = EmptyBag
    /\ snapshot = NoSnapshot

InitApiIdle ==
    /\ call = NoCall
    /\ outcome = NoCall

NoBadge == [kind |-> "none"]

Unmounted == [mounted |-> FALSE]

InitUiIdle ==
    /\ badge = NoBadge
    /\ app = Unmounted
    /\ net = {}
    /\ detail = Unmounted
    /\ chart = Unmounted

InitTiers ==
    /\ factions \in SmallInputs \cup StridedInputs
    /\ qualifying = <<>>
    /\ tiers = <<>>
    /\ pc = "ready"
    /\ ref = NoRef
    /\ InitEpochIdle
    /\ InitAggIdle
    /\ InitApiIdle
    /\ InitUiIdle

\* one call of assignTiers(factions, getValue)
AssignTiers ==
    /\ pc = "ready"
    /\ \E q \in SortOutcomes(Filter(Items(factions))) :
          /\ qualifying' = q
          /\ tiers' = TiersFor(factions, q)
    /\ pc' = "done"
    /\ UNCHANGED <<factions, ref, boundaries, resolved, aggVars, apiVars, uiVars>>

NextTiers == AssignTiers

SpecTiers == InitTiers /\ [][NextTiers]_vars

---------------------------------------------------------------------------
(* Calls of assignTiers on transformed arguments *)

\* lists of at most MaxRelLen factions and the strided lists; only lists
\* for which ECMAScript fixes the sort order
RelInputs ==
    { fs \in SeqsUpTo(Faction, MaxRelLen) \cup StridedInputs :
        Consistent(Filter(Items(fs))) }

\* strictly increasing map of the values: v -> a*v + b, plus g from t upwards
Transform(v, a, b, t, g) ==
    IF v = Missing THEN Missing
    ELSE a * v + b + (IF v >= t THEN g ELSE 0)

Transformed(fs, a, b, t, g) ==
    [i \in 1..Len(fs) |->
        [val |-> Transform(fs[i].val, a, b, t, g), count |-> fs[i].count]]

InitRel ==
    /\ factions \in RelInputs
    /\ qualifying = <<>>
    /\ tiers = <<>>
    /\ pc = "ready"
    /\ ref = NoRef
    /\ InitEpochIdle
    /\ InitAggIdle
    /\ InitApiIdle
    /\ InitUiIdle

\* a later call of assignTiers with arguments fs
Call(fs) ==
    /\ factions' = fs
    /\ \E q \in SortOutcomes(Filter(Items(fs))) :
          /\ qualifying' = q
          /\ tiers' = TiersFor(fs, q)
    /\ pc' = "done"

\* call again with every value replaced by its image under the transform
CallTransformed ==
    /\ pc = "done"
    /\ ref.kind = "none"
    /\ \E a \in 1..MaxScale, b \in 0..MaxShift, t \in 0..MaxVal, g \in 0..MaxShift :
          Call(Transformed(factions, a, b, t, g))
    /\ ref' = [kind |-> "transformed", args |-> factions, result |-> tiers,
               mid |-> <<>>]
    /\ UNCHANGED <<boundaries, resolved, aggVars, apiVars, uiVars>>

NextRel == AssignTiers \/ CallTransformed

SpecRel == InitRel /\ [][NextRel]_vars

---------------------------------------------------------------------------
(* Repeated calls of assignTiers in one page *)

AgainFaction == [val : 0..MaxVal, count : (QUALIFY_MIN - 1)..QUALIFY_MIN]

AgainInputs == SeqsUpTo(AgainFaction, MaxAgainLen)

InitTwice ==
    /\ factions \in AgainInputs
    /\ qualifying = <<>>
    /\ tiers = <<>>
    /\ pc = "ready"
    /\ ref = NoRef
    /\ InitEpochIdle
    /\ InitAggIdle
    /\ InitApiIdle
    /\ InitUiIdle

\* remember the call that just returned
Pin ==
    /\ pc = "done"
    /\ ref.kind = "none"
    /\ ref' = [kind |-> "same", args |-> factions, result |-> tiers, mid |-> <<>>]
    /\ UNCHANGED <<factions, qualifying, tiers, pc, boundaries, resolved, aggVars, apiVars, uiVars>>

\* a call with any arguments after the remembered one
CallOther ==
    /\ pc = "done"
    /\ ref.kind = "same"
    /\ \E fs \in AgainInputs :
          /\ Call(fs)
          /\ ref' = [ref EXCEPT !.kind = "other", !.mid = fs]
    /\ UNCHANGED <<boundaries, resolved, aggVars, apiVars, uiVars>>

\* the remembered call made again
Repeat ==
    /\ pc = "done"
    /\ ref.kind = "other"
    /\ Call(ref.args)
    /\ ref' = [ref EXCEPT !.kind = "again"]
    /\ UNCHANGED <<boundaries, resolved, aggVars, apiVars, uiVars>>

NextTwice == AssignTiers \/ Pin \/ CallOther \/ Repeat

SpecTwice == InitTwice /\ [][NextTwice]_vars

---------------------------------------------------------------------------
(* docs/02_data_model.md, Epoch Mapping Rules *)

PRE_TRACKING_EPOCH_ID == <<"pre_tracking", 0>>

\* the epoch started by a significant event: sha256(start_event_id)
epoch_id_from_event(e) == <<"epoch", e.id>>

\* .filter(|e| e.date <= date)
OnOrBefore(events, date) == SelectSeq(events, LAMBDA e : e.date <= date)

RECURSIVE MinByDate(_, _)
MinByDate(best, rest) ==
    IF rest = <<>> THEN best
    ELSE MinByDate(IF Head(rest).date < best.date THEN Head(rest) ELSE best,
                   Tail(rest))

\* .max_by_key(|e| e.date) on a non-empty iterator: of several equally
\* maximum elements the last one is returned
RECURSIVE MaxByDate(_, _)
MaxByDate(best, rest) ==
    IF rest = <<>> THEN best
    ELSE MaxByDate(IF Head(rest).date >= best.date THEN Head(rest) ELSE best,
                   Tail(rest))

get_epoch_assuming_sorted(date, events) ==
    LET n == Len(OnOrBefore(events, date)) IN
    IF n = 0 THEN PRE_TRACKING_EPOCH_ID ELSE epoch_id_from_event(events[n])

\* fn get_epoch_for_date(date, events) -> EpochId
get_epoch_for_date(date, events) ==
    LET found == OnOrBefore(events, date) IN
    IF found = <<>> THEN PRE_TRACKING_EPOCH_ID
    ELSE epoch_id_from_event(MaxByDate(Head(found), Tail(found)))

Dates == 0..MaxDate

\* significant events in any order of the list, ids by position
BoundaryLists ==
    UNION { { [i \in 1..k |-> [id |-> i, date |-> ds[i]]] : ds \in [1..k -> Dates] } :
            k \in 0..MaxEvents }

InitEpoch ==
    /\ boundaries \in BoundaryLists
    /\ resolved = <<>>
    /\ factions = <<>>
    /\ qualifying = <<>>
    /\ tiers = <<>>
    /\ pc = "idle"
    /\ ref = NoRef
    /\ InitAggIdle
    /\ InitApiIdle
    /\ InitUiIdle

\* one call of get_epoch_for_date(d, boundaries)
Resolve ==
    /\ \E d \in Dates \ DOMAIN resolved :
          resolved' = (d :> get_epoch_for_date(d, boundaries)) @@ resolved
    /\ UNCHANGED <<boundaries, factions, qualifying, tiers, pc, ref, aggVars, apiVars, uiVars>>

NextEpoch == Resolve

SpecEpoch == InitEpoch /\ [][NextEpoch]_vars

---------------------------------------------------------------------------
(* Properties of assignTiers, stated on the arguments and the result *)

\* positions (1-based) of the factions with count >= 3
QualPos == { i \in 1..Len(factions) : factions[i].count >= 3 }

NumQual == Cardinality(QualPos)

AllNumeric == \A i \in QualPos : factions[i].val >= 0

DistinctVals ==
    \A i, j \in QualPos : i # j => factions[i].val # factions[j].val

\* rank by descending value, equal values in input order
DescRank(i) ==
    Cardinality({ j \in QualPos :
        \/ factions[j].val > factions[i].val
        \/ factions[j].val = factions[i].val /\ j < i })

\* position of input index i in the sorted array, counted from 0
SortedPos(i) == CHOOSE r \in 0..(Len(qualifying) - 1) : qualifying[r + 1].idx = i - 1

\* the tier the specification gives to rank r of n: cut points 3/20, 2/5,
\* 7/10 and 9/10, inclusive
SpecTier(r, n) ==
    IF n = 1 THEN 0
    ELSE IF 20 * r <= 3 * (n - 1) THEN 0
    ELSE IF 5 * r <= 2 * (n - 1) THEN 1
    ELSE IF 10 * r <= 7 * (n - 1) THEN 2
    ELSE IF 10 * r <= 9 * (n - 1) THEN 3
    ELSE 4

\* C1: every faction whose count is below 3 is given tier D (index 4),
\* whatever its value and whatever the other factions are.
C1_SmallSampleIsD ==
    pc = "done" =>
        \A i \in 1..Len(factions) :
            factions[i].count < 3 =>
                (i - 1) \in DOMAIN tiers /\ tiers[i - 1] = 4

\* an unqualified faction with the strictly highest value beside a qualifying one
C1_Witness ==
    /\ pc = "done"
    /\ \E i, j \in 1..Len(factions) :
          /\ factions[i].count < 3
          /\ factions[j].count >= 3
          /\ factions[j].val >= 0
          /\ factions[i].val > factions[j].val
          /\ tiers[i - 1] = 4

\* C2: with n qualifying factions, the faction the sort puts at rank r gets
\* the tier of percentile r/(n-1) (0 when n = 1) under the inclusive cut
\* points, and when all qualifying values are numbers that rank is the rank
\* by descending value.
C2_PercentileTiers ==
    pc = "done" =>
        /\ Len(qualifying) = NumQual
        /\ { qualifying[r].idx + 1 : r \in 1..Len(qualifying) } = QualPos
        /\ \A r \in 1..Len(qualifying) :
              tiers[qualifying[r].idx] = SpecTier(r - 1, NumQual)
        /\ AllNumeric =>
              \A i \in QualPos : tiers[i - 1] = SpecTier(DescRank(i), NumQual)

\* all five tiers occur, and a percentile that equals a cut point exactly
\* (rank 3 of 21: 3/20 = 0.15) falls in the better tier
C2_Witness ==
    /\ pc = "done"
    /\ NumQual = 21
    /\ DistinctVals
    /\ { tiers[i - 1] : i \in QualPos } = 0..4
    /\ \E i \in QualPos : DescRank(i) = 3 /\ tiers[i - 1] = 0

\* C3: when exactly one faction qualifies it is given tier S (index 0),
\* whatever its value and however many unqualified factions there are.
C3_SingleQualifierIsS ==
    (pc = "done" /\ NumQual = 1) =>
        \A i \in QualPos : tiers[i - 1] = 0

\* one qualifying faction among unqualified ones with higher values
C3_Witness ==
    /\ pc = "done"
    /\ NumQual = 1
    /\ Len(factions) >= 3
    /\ \E i \in QualPos : \E j \in 1..Len(factions) :
          /\ factions[j].count < 3
          /\ factions[i].val >= 0
          /\ factions[j].val > factions[i].val
          /\ tiers[i - 1] = 0

\* C4: with n >= 7 qualifying factions of distinct values, the one with the
\* highest value is given S and the one with the lowest value is given D.
C4_BestIsSWorstIsD ==
    (pc = "done" /\ NumQual >= 7 /\ AllNumeric /\ DistinctVals) =>
        \A i \in QualPos :
            /\ (\A j \in QualPos : factions[j].val <= factions[i].val)
                  => tiers[i - 1] = 0
            /\ (\A j \in QualPos : factions[j].val >= factions[i].val)
                  => tiers[i - 1] = 4

\* at least 7 distinct qualifying values that are not already in sorted order
C4_Witness ==
    /\ pc = "done"
    /\ NumQual >= 7
    /\ AllNumeric
    /\ DistinctVals
    /\ \E i, j \in QualPos : i < j /\ factions[i].val < factions[j].val
    /\ \E i \in QualPos : tiers[i - 1] = 0
    /\ \E i \in QualPos : tiers[i - 1] = 4

\* C5: of two qualifying factions with equal values the one with the smaller
\* input index gets the smaller rank, and so a tier that is not worse.
C5_TiesInInputOrder ==
    pc = "done" =>
        \A i, j \in QualPos :
            (i < j /\ factions[i].val >= 0 /\ factions[i].val = factions[j].val) =>
                /\ SortedPos(i) < SortedPos(j)
                /\ tiers[i - 1] <= tiers[j - 1]

\* C8: the result has exactly one entry per input index 0..len-1, each a tier
\* index 0..4, also for an empty input, equal values or a missing value.
C8_TotalMapping ==
    pc = "done" =>
        /\ DOMAIN tiers = 0..(Len(factions) - 1)
        /\ \A j \in DOMAIN tiers : tiers[j] \in 0..4

\* a call with a missing value among the qualifying factions and an
\* unqualified faction in front
C8_Witness ==
    /\ pc = "done"
    /\ Len(factions) >= 3
    /\ factions[1].count < 3
    /\ \E i \in QualPos : factions[i].val = Missing
    /\ \E i, j \in QualPos :
          i # j /\ factions[i].val >= 0 /\ factions[i].val = factions[j].val
    /\ DOMAIN tiers = 0..(Len(factions) - 1)

C7_OrderOnly ==
    (pc = "done" /\ ref.kind = "transformed") =>
        tiers = ref.result

\* three qualifying factions, not all equal and not in sorted order, whose
\* values the transform has changed
C7_Witness ==
    /\ pc = "done"
    /\ ref.kind = "transformed"
    /\ NumQual >= 3
    /\ \A i \in QualPos : factions[i].val # ref.args[i].val
    /\ \E i, j \in QualPos : i < j /\ factions[i].val < factions[j].val
    /\ \E i, j \in QualPos :
          factions[j].val - factions[i].val > ref.args[j].val - ref.args[i].val
    /\ tiers = ref.result

---------------------------------------------------------------------------
(* Properties of get_epoch_for_date *)

\* positions of the boundaries that start on or before d
StartedBy(d) == { i \in 1..Len(boundaries) : boundaries[i].date <= d }

Tracked(d) == resolved[d] # <<"pre_tracking", 0>>

\* start date of the boundary a tracked epoch id belongs to
StartOf(eid) ==
    boundaries[CHOOSE i \in 1..Len(boundaries) : <<"epoch", boundaries[i].id>> = eid].date

NonOverlapping ==
    \A i, j \in 1..Len(boundaries) :
        i # j => boundaries[i].date # boundaries[j].date

C10_TotalAndMonotonic ==
    NonOverlapping =>
        /\ \A d \in DOMAIN resolved :
              \/ ~Tracked(d)
              \/ \E i \in 1..Len(boundaries) : resolved[d] = <<"epoch", boundaries[i].id>>
        /\ \A d1, d2 \in DOMAIN resolved :
              (d1 < d2 /\ Tracked(d1) /\ Tracked(d2)) =>
                  StartOf(resolved[d2]) >= StartOf(resolved[d1])

\* every date resolved against three boundaries listed out of order, two
\* dates falling in different tracked epochs
C10_Witness ==
    /\ NonOverlapping
    /\ Len(boundaries) >= 3
    /\ \E i, j \in 1..Len(boundaries) : i < j /\ boundaries[i].date > boundaries[j].date
    /\ DOMAIN resolved = 0..MaxDate
    /\ \E d1, d2 \in DOMAIN resolved :
          /\ d1 < d2
          /\ Tracked(d1)
          /\ Tracked(d2)
          /\ StartOf(resolved[d2]) > StartOf(resolved[d1])

---------------------------------------------------------------------------
(* Faction aggregator: placement records folded into FactionCounters.     *)
(* A placement is [event_id, rank, faction, record]; record has a flag    *)
(* `present`, so a missing record differs from a record of all zeros.     *)

MaxRecords == 2   \* most placement records fed to one aggregation run

\* total player count of each event, by event id
EventSizes == <<120, 6, 20>>

event_player_count(event_id) == EventSizes[event_id]

\* the factions of the model, in roster order
Roster == <<"Aeldari", "Orks">>

FactionNames == { Roster[i] : i \in DOMAIN Roster }

NoRecord == [present |-> FALSE, wins |-> 0, losses |-> 0, draws |-> 0]

WLD(w, l, d) == [present |-> TRUE, wins |-> w, losses |-> l, draws |-> d]

Placement(e, k, f, rec) == [event_id |-> e, rank |-> k, faction |-> f, record |-> rec]

\* ranks on both sides of the thresholds 1, 4 and 10
RankSamples == {1, 4, 5, 10, 11}

RecordSamples ==
    { WLD(4, 0, 0), WLD(5, 0, 0), WLD(6, 0, 0), WLD(4, 1, 0), WLD(5, 0, 1),
      WLD(0, 0, 0), WLD(3, 0, 0) }

\* InvalidRecord: non-positive rank or empty faction name
InvalidSamples ==
    { Placement(1, 0, "Aeldari", WLD(4, 0, 0)),
      Placement(1, -1, "Orks", NoRecord),
      Placement(1, 1, "", WLD(5, 0, 0)) }

PlacementPool ==
    { Placement(e, k, f, NoRecord) :
        e \in DOMAIN EventSizes, k \in RankSamples, f \in FactionNames }
    \cup { Placement(1, 5, f, rec) : f \in FactionNames, rec \in RecordSamples }
    \cup InvalidSamples

AcceptsAnyRank(r) == r.faction # ""

IsValid(r) == r.rank >= 1 /\ r.faction # ""

ZeroCounters ==
    [player_count |-> 0, games_played |-> 0, wins |-> 0, losses |-> 0,
     draws |-> 0, first |-> 0, top4 |-> 0, top10 |-> 0, top_half |-> 0,
     four_zero_count |-> 0, five_zero_count |-> 0, events |-> {}]

One(b) == IF b THEN 1 ELSE 0

InTopThird(r) == 3 * r.rank <= event_player_count(r.event_id)

\* rank <= player_count_of_event / 2
InTopHalf(r) == 2 * r.rank <= event_player_count(r.event_id)

AtLeastFour(rec) == rec.present /\ rec.losses = 0 /\ rec.draws = 0 /\ rec.wins >= 4

\* a perfect 4-0 / 5-0: exact win count, no losses, no draws
IsFourZero(rec) == rec.present /\ rec.losses = 0 /\ rec.draws = 0 /\ rec.wins = 4

IsFiveZero(rec) == rec.present /\ rec.losses = 0 /\ rec.draws = 0 /\ rec.wins = 5

GamesCountingMissing(old, rec) ==
    old + rec.wins + rec.losses + rec.draws + One(~rec.present)

GamesAfter(old, rec) ==
    IF rec.present THEN old + rec.wins + rec.losses + rec.draws ELSE old

\* the counters of one faction after one more of its placements
Count(c, r) ==
    [player_count |-> c.player_count + 1,
     games_played |-> GamesAfter(c.games_played, r.record),
     wins |-> c.wins + (IF r.record.present THEN r.record.wins ELSE 0),
     losses |-> c.losses + (IF r.record.present THEN r.record.losses ELSE 0),
     draws |-> c.draws + (IF r.record.present THEN r.record.draws ELSE 0),
     first |-> c.first + One(r.rank = 1),
     top4 |-> c.top4 + One(r.rank <= 4),
     top10 |-> c.top10 + One(r.rank <= 10),
     top_half |-> c.top_half + One(InTopHalf(r)),
     four_zero_count |-> c.four_zero_count + One(IsFourZero(r.record)),
     five_zero_count |-> c.five_zero_count + One(IsFiveZero(r.record)),
     events |-> c.events \cup {r.event_id}]

CountersOf(cs, f) == IF f \in DOMAIN cs THEN cs[f] ELSE ZeroCounters

AggStepFresh(cs, r) ==
    IF IsValid(r) THEN (r.faction :> Count(ZeroCounters, r)) @@ cs
    ELSE cs

\* one step of aggregate: the mapping after record r
AggStep(cs, r) ==
    IF IsValid(r) THEN (r.faction :> Count(CountersOf(cs, r.faction), r)) @@ cs
    ELSE cs

SkipStep(sk, r) == IF IsValid(r) THEN sk ELSE sk (+) SetToBag({r})

RECURSIVE aggregate(_)
aggregate(records) ==
    IF records = <<>> THEN <<>>
    ELSE AggStep(aggregate(SubSeq(records, 1, Len(records) - 1)),
                 records[Len(records)])

---------------------------------------------------------------------------
(* Derived metrics.  A ratio is kept exact as num/den; `null` marks the   *)
(* absent value, which is different from the ratio 0.                     *)

Null == [null |-> TRUE, num |-> 0, den |-> 1]

RatioOrZero(n, d) ==
    IF d = 0 THEN [null |-> FALSE, num |-> 0, den |-> 1]
    ELSE [null |-> FALSE, num |-> n, den |-> d]

\* n / d, null when the denominator is 0
Ratio(n, d) ==
    IF d = 0 THEN Null ELSE [null |-> FALSE, num |-> n, den |-> d]

Quotient(a, b) == [null |-> FALSE, num |-> a.num * b.den, den |-> a.den * b.num]

IsZero(q) == q.null \/ q.num = 0

SameRatio(q, n, d) == ~q.null /\ q.num * d = n * q.den

GreaterThanOne(q) == ~q.null /\ q.num > q.den

RECURSIVE SumOver(_, _, _)
SumOver(cs, fset, field) ==
    IF fset = {} THEN 0
    ELSE LET f == CHOOSE x \in fset : TRUE
         IN cs[f][field] + SumOver(cs, fset \ {f}, field)

\* totals across all factions in range
Totals(cs) ==
    [players |-> SumOver(cs, DOMAIN cs, "player_count"),
     games |-> SumOver(cs, DOMAIN cs, "games_played"),
     top4 |-> SumOver(cs, DOMAIN cs, "top4"),
     events |-> Cardinality(UNION { cs[f].events : f \in DOMAIN cs })]

win_rate(c) == Ratio(c.wins, c.games_played)

PodiumFromFirst(c) == Ratio(c.first, c.player_count)

podium_rate(c) == Ratio(c.top4, c.player_count)

meta_share(c, totals) == Ratio(c.player_count, totals.players)

PopulationOverTop4(c, totals) ==
    LET ms == meta_share(c, totals) IN
    IF IsZero(ms) \/ totals.top4 = 0 \/ c.top4 = 0 THEN Null
    ELSE Quotient(ms, Ratio(c.top4, totals.top4))

over_representation(c, totals) ==
    LET ms == meta_share(c, totals) IN
    IF IsZero(ms) \/ totals.top4 = 0 THEN Null
    ELSE Quotient(Ratio(c.top4, totals.top4), ms)

\* the factions present in the counters, in roster order
Present(cs) == SelectSeq(Roster, LAMBDA f : f \in DOMAIN cs)

RECURSIVE OtherGames(_, _, _)
OtherGames(cs, fset, f) ==
    IF fset = {} THEN 1
    ELSE LET g == CHOOSE x \in fset : TRUE
         IN (IF g = f \/ cs[g].games_played = 0 THEN 1 ELSE cs[g].games_played)
            * OtherGames(cs, fset \ {g}, f)

\* win_rate as the tiering value: the rates of all factions brought to one
\* common denominator, so that integer order is the order of the rates
WinRateValue(cs, f) ==
    IF cs[f].games_played = 0 THEN Missing
    ELSE cs[f].wins * OtherGames(cs, DOMAIN cs, f)

\* the argument of assign_tiers: {key, value, player_count} per faction
TierInput(cs) ==
    [i \in 1..Len(Present(cs)) |->
        [val |-> WinRateValue(cs, Present(cs)[i]),
         count |-> cs[Present(cs)[i]].player_count]]

PositionOf(cs, f) == CHOOSE i \in 1..Len(Present(cs)) : Present(cs)[i] = f

\* FactionStats of one faction
Stats(cs, f, t) ==
    [player_count |-> cs[f].player_count,
     games_played |-> cs[f].games_played,
     wins |-> cs[f].wins, losses |-> cs[f].losses, draws |-> cs[f].draws,
     event_appearances |-> Cardinality(cs[f].events),
     first |-> cs[f].first, top4 |-> cs[f].top4,
     top10 |-> cs[f].top10, top_half |-> cs[f].top_half,
     four_zero_starts |-> cs[f].four_zero_count,
     five_zero_starts |-> cs[f].five_zero_count,
     win_rate |-> win_rate(cs[f]),
     podium_rate |-> podium_rate(cs[f]),
     meta_share |-> meta_share(cs[f], Totals(cs)),
     over_representation |-> over_representation(cs[f], Totals(cs)),
     tier |-> t[PositionOf(cs, f) - 1]]

\* the snapshot compute assembles from the counters, tiers t by position
Assemble(cs, sk, t) ==
    [done |-> TRUE,
     factions |-> [f \in DOMAIN cs |-> Stats(cs, f, t)],
     totals |-> Totals(cs),
     skipped |-> sk]

---------------------------------------------------------------------------
(* The stats engine as a state machine: compute reads the record source   *)
(* one placement at a time (Feed), then ranks, derives and assembles      *)
(* (Compute).                                                             *)

InitTiersIdle ==
    /\ factions = <<>>
    /\ qualifying = <<>>
    /\ tiers = <<>>
    /\ pc = "idle"
    /\ ref = NoRef

InitAgg ==
    /\ InitAggIdle
    /\ InitTiersIdle
    /\ InitEpochIdle
    /\ InitApiIdle
    /\ InitUiIdle

\* the aggregator consumes placement r
Consume(r) ==
    /\ ~snapshot.done
    /\ fed' = fed (+) SetToBag({r})
    /\ counters' = AggStep(counters, r)
    /\ skipped' = SkipStep(skipped, r)
    /\ UNCHANGED <<snapshot, tierVars, epochVars, apiVars, uiVars>>

Feed ==
    /\ BagCardinality(fed) < MaxRecords
    /\ \E r \in PlacementPool : Consume(r)

\* rank by win_rate, derive, assemble, return the snapshot
Compute ==
    /\ ~snapshot.done
    /\ \E q \in SortOutcomes(Filter(Items(TierInput(counters)))) :
          snapshot' = Assemble(counters, skipped, TiersFor(TierInput(counters), q))
    /\ UNCHANGED <<fed, counters, skipped, tierVars, epochVars, apiVars, uiVars>>

NextAgg == Feed \/ Compute

SpecAgg == InitAgg /\ [][NextAgg]_vars

\* The worked scenario: five Aeldari placements at the 120-player event,
\* ranks 1-5, wins 5,4,3,2,1, losses 0,1,2,3,4, no draws
ScenarioPlacements ==
    { Placement(1, k, "Aeldari", WLD(6 - k, k - 1, 0)) : k \in 1..5 }

\* placements of another faction at the same event
ScenarioOthers ==
    { Placement(1, 6, "Orks", WLD(3, 2, 0)), Placement(1, 7, "Orks", NoRecord) }

\* the source holds each placement once
FeedScenario ==
    \E r \in ScenarioPlacements \cup ScenarioOthers :
        /\ CopiesIn(r, fed) = 0
        /\ Consume(r)

NextScenario == FeedScenario \/ Compute

SpecScenario == InitAgg /\ [][NextScenario]_vars

---------------------------------------------------------------------------
(* derive and the rest of compute on counters of any shape, a faction    *)
(* that is listed without a placement in range included.                 *)

MaxPlayers == 2   \* largest player_count of a faction in the drawn counters
MaxGames == 2     \* largest games_played of a faction in the drawn counters

\* counters with the given sums; the fields the metrics do not read are
\* filled consistently with them
CountersWith(p, t, g, w) ==
    [player_count |-> p, games_played |-> g, wins |-> w, losses |-> g - w,
     draws |-> 0, first |-> 0, top4 |-> t, top10 |-> t, top_half |-> t,
     four_zero_count |-> 0, five_zero_count |-> 0,
     events |-> IF p = 0 THEN {} ELSE {1}]

DrawnCounters ==
    {ZeroCounters} \cup
    { CountersWith(p, t, g, w) :
        p \in 1..MaxPlayers, t \in 0..MaxPlayers, g \in 0..MaxGames, w \in 0..MaxGames }

CounterMaps ==
    { cs \in [FactionNames -> DrawnCounters] :
        \A f \in FactionNames :
            cs[f].top4 <= cs[f].player_count /\ cs[f].wins <= cs[f].games_played }

InitDerive ==
    /\ counters \in CounterMaps
    /\ fed = EmptyBag
    /\ skipped = EmptyBag
    /\ snapshot = NoSnapshot
    /\ InitTiersIdle
    /\ InitEpochIdle
    /\ InitApiIdle
    /\ InitUiIdle

NextDerive == Compute

SpecDerive == InitDerive /\ [][NextDerive]_vars

---------------------------------------------------------------------------
(* createApi (static/js/lib/api.js).  A URL is kept as the sequence of    *)
(* the strings the code concatenates; Join gives the string passed to     *)
(* fetch.  The epoch argument is a sequence of characters, so that        *)
(* encodeURIComponent acts on each character; the other string arguments  *)
(* are appended as they are.  A falsy argument (omitted, undefined, 0 or   *)
(* the empty string) is 0 for a number and empty for a string.            *)

MaxPage == 2       \* largest page argument
MaxEpochLen == 2   \* longest epoch id built from EpochAlphabet

RECURSIVE Join(_)
Join(pieces) == IF pieces = <<>> THEN "" ELSE Head(pieces) \o Join(Tail(pieces))

\* characters of epoch ids: two unreserved, and two that must be escaped,
\* the ampersand and the blank
EpochAlphabet == {"e", "-", "&", " "}

CURRENT == <<"c", "u", "r", "r", "e", "n", "t">>

EpochArgs ==
    {CURRENT} \cup UNION { [1..k -> EpochAlphabet] : k \in 0..MaxEpochLen }

Unreserved == {"e", "-", "c", "u", "r", "n", "t"}

EncodeChar(c) ==
    IF c \in Unreserved THEN c
    ELSE IF c = "&" THEN "%26"
    ELSE "%20"

\* encodeURIComponent(epoch)
encodeURIComponent(chars) == Join([i \in 1..Len(chars) |-> EncodeChar(chars[i])])

SendsAnyEpoch(epoch) == epoch # <<>>

\* epoch && epoch !== 'current'
SendsEpoch(epoch) == epoch # <<>> /\ epoch # CURRENT

\* x || d
OrElse(x, d) == IF x = 0 THEN d ELSE x

DateArgs == {"", "2025-06-15"}

IdArgs == {"ev1", "ev2"}

Bodies == {"{\"total\":0}", "{\"total\":3}"}

\* res.json(): the value of the body text
JSONParse(text) == [total |-> IF text = "{\"total\":0}" THEN 0 ELSE 3]

NoValue == [none |-> TRUE]

\* what fetch gives: no response (the fetch promise rejects), a response
\* that is not ok, or an ok response with a JSON body
Responses ==
    { [arrived |-> FALSE, ok |-> FALSE, status |-> 0, body |-> ""] }
    \cup { [arrived |-> TRUE, ok |-> FALSE, status |-> st, body |-> "{\"total\":0}"] :
             st \in {404, 500, 503} }
    \cup { [arrived |-> TRUE, ok |-> TRUE, status |-> 200, body |-> b] : b \in Bodies }

SettleUnchecked(kind, pieces, res) ==
    [url |-> pieces,
     state |-> IF res.arrived THEN "resolved" ELSE "rejected",
     error |-> IF res.arrived THEN "" ELSE "fetch failed",
     bodyRead |-> res.arrived,
     value |-> IF res.arrived THEN JSONParse(res.body) ELSE NoValue]

\* var res = await _fetch(url);
\* if (!res.ok) throw new Error(kind + ' API error: ' + res.status);
\* return res.json();
Settle(kind, pieces, res) ==
    IF ~res.arrived
    THEN [url |-> pieces, state |-> "rejected", error |-> "fetch failed",
          bodyRead |-> FALSE, value |-> NoValue]
    ELSE IF ~res.ok
    THEN [url |-> pieces, state |-> "rejected",
          error |-> kind \o " API error: " \o ToString(res.status),
          bodyRead |-> FALSE, value |-> NoValue]
    ELSE [url |-> pieces, state |-> "resolved", error |-> "",
          bodyRead |-> TRUE, value |-> JSONParse(res.body)]

EventsUrl(page, pageSize, epoch, from, to, hasResults) ==
    <<"/api/events?", "page=", ToString(OrElse(page, 1)),
      "&page_size=", ToString(OrElse(pageSize, 20))>>
    \o (IF SendsEpoch(epoch) THEN <<"&epoch=", encodeURIComponent(epoch)>> ELSE <<>>)
    \o (IF from # "" THEN <<"&from=", from>> ELSE <<>>)
    \o (IF to # "" THEN <<"&to=", to>> ELSE <<>>)
    \o (IF hasResults THEN <<"&has_results=true">> ELSE <<>>)

EventUrl(id, epoch) ==
    <<"/api/events/", id>>
    \o (IF SendsEpoch(epoch) THEN <<"?epoch=", encodeURIComponent(epoch)>> ELSE <<>>)

\* parts.join('&')
RECURSIVE JoinParts(_)
JoinParts(parts) ==
    IF parts = <<>> THEN <<>>
    ELSE IF Len(parts) = 1 THEN Head(parts)
    ELSE Head(parts) \o <<"&">> \o JoinParts(Tail(parts))

FactionStatsUrl(epoch, from, to) ==
    LET parts ==
          (IF SendsEpoch(epoch) THEN << <<"epoch=", encodeURIComponent(epoch)>> >> ELSE <<>>)
          \o (IF from # "" THEN << <<"from=", from>> >> ELSE <<>>)
          \o (IF to # "" THEN << <<"to=", to>> >> ELSE <<>>)
    IN <<"/api/meta/factions">>
       \o (IF Len(parts) > 0 THEN <<"?">> \o JoinParts(parts) ELSE <<>>)

InitApi ==
    /\ call = NoCall
    /\ outcome = NoCall
    /\ InitUiIdle
    /\ InitAggIdle
    /\ InitTiersIdle
    /\ InitEpochIdle

ApiIdle == call.method = "none"

GetEvents ==
    /\ ApiIdle
    /\ \E page \in 0..MaxPage, pageSize \in {0, 50}, epoch \in EpochArgs,
          from \in DateArgs, to \in DateArgs, hasResults \in BOOLEAN,
          res \in Responses :
          /\ call' = [method |-> "getEvents", page |-> page, pageSize |-> pageSize,
                      epoch |-> epoch, from |-> from, to |-> to,
                      hasResults |-> hasResults, response |-> res]
          /\ outcome' = Settle("Events",
                               EventsUrl(page, pageSize, epoch, from, to, hasResults), res)
    /\ UNCHANGED <<tierVars, epochVars, aggVars, uiVars>>

GetEvent ==
    /\ ApiIdle
    /\ \E id \in IdArgs, epoch \in EpochArgs, res \in Responses :
          /\ call' = [method |-> "getEvent", id |-> id, epoch |-> epoch,
                      response |-> res]
          /\ outcome' = Settle("Event", EventUrl(id, epoch), res)
    /\ UNCHANGED <<tierVars, epochVars, aggVars, uiVars>>

GetFactionStats ==
    /\ ApiIdle
    /\ \E epoch \in EpochArgs, from \in DateArgs, to \in DateArgs, res \in Responses :
          /\ call' = [method |-> "getFactionStats", epoch |-> epoch, from |-> from,
                      to |-> to, response |-> res]
          /\ outcome' = Settle("Meta", FactionStatsUrl(epoch, from, to), res)
    /\ UNCHANGED <<tierVars, epochVars, aggVars, uiVars>>

GetEpochs ==
    /\ ApiIdle
    /\ \E res \in Responses :
          /\ call' = [method |-> "getEpochs", response |-> res]
          /\ outcome' = Settle("Epochs", <<"/api/epochs">>, res)
    /\ UNCHANGED <<tierVars, epochVars, aggVars, uiVars>>

NextApi == GetEvents \/ GetEvent \/ GetFactionStats \/ GetEpochs

SpecApi == InitApi /\ [][NextApi]_vars

---------------------------------------------------------------------------
(* Properties of the aggregator, stated on the records fed and counters *)

\* the records of a bag in some fixed order
RECURSIVE BagSeq(_)
BagSeq(b) ==
    IF BagToSet(b) = {} THEN <<>>
    ELSE LET r == CHOOSE x \in BagToSet(b) : TRUE
         IN <<r>> \o BagSeq(b (-) SetToBag({r}))

WellFormed(r) == r.rank > 0 /\ r.faction # ""

ValidFed == SelectSeq(BagSeq(fed), WellFormed)

\* the placement consumed by the step, if the step consumed one
Consumed(r) == fed' = fed (+) SetToBag({r})

Before(r) == CountersOf(counters, r.faction)

After(r) == counters'[r.faction]

\* C11: after aggregating valid placement records, every faction's placement
\* buckets are mutually inclusive, first <= top4 <= top10 <= top_half, for
\* events of every player count.
C11_BucketsInclusive ==
    \A f \in DOMAIN counters :
        /\ counters[f].first <= counters[f].top4
        /\ counters[f].top4 <= counters[f].top10
        /\ counters[f].top10 <= counters[f].top_half

\* C11 amended: every faction's buckets satisfy first <= top4 <= top10 for
\* events of every player count, and top10 <= top_half when each of the
\* faction's placements was at an event of at least 20 players.
C11_BucketsInclusiveLargeEvents ==
    \A f \in DOMAIN counters :
        /\ counters[f].first <= counters[f].top4
        /\ counters[f].top4 <= counters[f].top10
        /\ (\A r \in BagToSet(fed) :
                r.faction = f => EventSizes[r.event_id] >= 20)
              => counters[f].top10 <= counters[f].top_half

C11_Witness ==
    \E f \in DOMAIN counters :
        /\ counters[f].first = 1
        /\ counters[f].top10 = 2
        /\ counters[f].top_half = 2
        /\ \E r \in BagToSet(fed) :
              r.faction = f /\ r.rank = 10 /\ EventSizes[r.event_id] = 20

\* C12: aggregation is order-independent: in whatever order the records of a
\* multiset were consumed, the counters are those of the multiset taken in
\* one fixed order.
C12_OrderIndependent == counters = aggregate(BagSeq(fed))

C12_Witness ==
    \E r1, r2 \in BagToSet(fed) :
        /\ r1 # r2
        /\ r1.faction = r2.faction
        /\ WellFormed(r1) /\ WellFormed(r2)
        /\ r1.record.present /\ r2.record.present
        /\ r1.record.wins # r2.record.wins

\* C13: a consumed record increments four_zero_count exactly when it is
\* 4 wins, 0 losses, 0 draws and five_zero_count exactly when it is 5 wins,
\* 0 losses, 0 draws; never both; 6 or more wins without losses or draws
\* increment neither.
C13_PerfectStartExact ==
    [][\A r \in PlacementPool :
          Consumed(r) /\ WellFormed(r) =>
            LET rec == r.record
                d4 == After(r).four_zero_count - Before(r).four_zero_count
                d5 == After(r).five_zero_count - Before(r).five_zero_count
                clean == rec.present /\ rec.losses = 0 /\ rec.draws = 0
            IN /\ d4 = One(clean /\ rec.wins = 4)
               /\ d5 = One(clean /\ rec.wins = 5)
               /\ d4 + d5 <= 1
               /\ (clean /\ rec.wins >= 6 => d4 = 0 /\ d5 = 0)]_vars

C13_Witness ==
    \E f \in DOMAIN counters :
        /\ counters[f].five_zero_count = 1
        /\ counters[f].four_zero_count = 0
        /\ \E r \in BagToSet(fed) :
              r.faction = f /\ r.record = WLD(6, 0, 0) /\ WellFormed(r)

\* C17: a placement without a record adds 1 to player_count and to the
\* buckets its rank qualifies for and leaves games_played, wins, losses,
\* draws, four_zero_count and five_zero_count unchanged; a faction whose
\* placements all lack records has games_played = 0 and a null win_rate.
C17_MissingRecordFrame ==
    /\ [][\A r \in PlacementPool :
            Consumed(r) /\ WellFormed(r) /\ ~r.record.present =>
              /\ After(r).player_count = Before(r).player_count + 1
              /\ After(r).first = Before(r).first + One(r.rank = 1)
              /\ After(r).top4 = Before(r).top4 + One(r.rank <= 4)
              /\ After(r).top10 = Before(r).top10 + One(r.rank <= 10)
              /\ After(r).top_half =
                    Before(r).top_half + One(2 * r.rank <= EventSizes[r.event_id])
              /\ After(r).games_played = Before(r).games_played
              /\ After(r).wins = Before(r).wins
              /\ After(r).losses = Before(r).losses
              /\ After(r).draws = Before(r).draws
              /\ After(r).four_zero_count = Before(r).four_zero_count
              /\ After(r).five_zero_count = Before(r).five_zero_count]_vars
    /\ [](\A f \in DOMAIN counters :
            (\A r \in BagToSet(fed) : r.faction = f => ~r.record.present) =>
              /\ counters[f].games_played = 0
              /\ win_rate(counters[f]).null
              /\ (snapshot.done => snapshot.factions[f].win_rate.null))

C17_Witness ==
    /\ snapshot.done
    /\ \E f \in DOMAIN counters :
          /\ counters[f].player_count = 2
          /\ counters[f].top4 = 1
          /\ counters[f].games_played = 0
          /\ snapshot.factions[f].win_rate.null
          /\ \A r \in BagToSet(fed) : r.faction = f => ~r.record.present

\* C18: a placement with a non-positive rank or an empty faction name is left
\* out of every counter and reported in the skipped-record diagnostics, and
\* the statistics returned are those computed from the valid records alone.
C18_InvalidSkipped ==
    /\ counters = aggregate(ValidFed)
    /\ \A r \in PlacementPool :
          CopiesIn(r, skipped) = IF WellFormed(r) THEN 0 ELSE CopiesIn(r, fed)
    /\ snapshot.done =>
          /\ snapshot.skipped = skipped
          /\ \E q \in SortOutcomes(Filter(Items(TierInput(aggregate(ValidFed))))) :
                snapshot.factions =
                    Assemble(aggregate(ValidFed), skipped,
                             TiersFor(TierInput(aggregate(ValidFed)), q)).factions

C18_Witness ==
    /\ snapshot.done
    /\ BagCardinality(skipped) = 1
    /\ BagCardinality(fed) = 2
    /\ DOMAIN snapshot.factions # {}
    /\ \E r \in BagToSet(skipped) : r.rank <= 0 /\ r.record.present

ScenarioComputed == snapshot.done /\ fed = SetToBag(ScenarioPlacements)

\* C14 as stated: the five Aeldari placements of the worked scenario give
\* win_rate = 15/25 = 0.6, player_count = 1, tier D, podium_rate = 1/1,
\* four_zero_starts = 0 and five_zero_starts = 1.
C14_ScenarioAsStated ==
    ScenarioComputed =>
        LET a == snapshot.factions["Aeldari"] IN
        /\ SameRatio(a.win_rate, 15, 25) /\ SameRatio(a.win_rate, 6, 10)
        /\ a.player_count = 1
        /\ a.tier = D_TIER
        /\ SameRatio(a.podium_rate, 1, 1)
        /\ a.four_zero_starts = 0
        /\ a.five_zero_starts = 1

\* C14 amended: the five Aeldari placements of the worked scenario give
\* win_rate = 15/25 = 0.6, player_count = 5, tier S (the only qualifying
\* faction), podium_rate = 4/5, four_zero_starts = 0, five_zero_starts = 1.
C14_Scenario ==
    ScenarioComputed =>
        LET a == snapshot.factions["Aeldari"] IN
        /\ SameRatio(a.win_rate, 15, 25) /\ SameRatio(a.win_rate, 6, 10)
        /\ a.player_count = 5
        /\ a.tier = 0
        /\ SameRatio(a.podium_rate, 4, 5)
        /\ a.four_zero_starts = 0
        /\ a.five_zero_starts = 1

C14_Witness ==
    /\ ScenarioComputed
    /\ DOMAIN snapshot.factions = {"Aeldari"}
    /\ snapshot.totals.players = 5

---------------------------------------------------------------------------
(* Properties of the derived metrics, stated on counters and snapshot *)

TotalOf(field) == SumOver(counters, DOMAIN counters, field)

\* C15: over_representation is null whenever meta_share = 0 or total_top4 = 0;
\* otherwise it is greater than 1 exactly when top4 / total_top4 is strictly
\* greater than player_count / total_players.
C15_OverRepresentation ==
    snapshot.done =>
        \A f \in DOMAIN counters :
            LET over == snapshot.factions[f].over_representation
                c == counters[f]
            IN IF c.player_count = 0 \/ TotalOf("top4") = 0
               THEN over.null
               ELSE /\ ~over.null
                    /\ GreaterThanOne(over) <=>
                          c.top4 * TotalOf("player_count") > c.player_count * TotalOf("top4")

C15_Witness ==
    /\ snapshot.done
    /\ \E f, g \in DOMAIN counters :
          /\ GreaterThanOne(snapshot.factions[f].over_representation)
          /\ ~snapshot.factions[g].over_representation.null
          /\ ~GreaterThanOne(snapshot.factions[g].over_representation)
          /\ counters[g].top4 > 0

C15_WitnessNull ==
    /\ snapshot.done
    /\ \E f, g \in DOMAIN counters :
          /\ counters[f].player_count = 0
          /\ counters[g].top4 > 0
          /\ snapshot.factions[f].over_representation.null

\* C16: win_rate is null when games_played = 0 and wins / games_played
\* otherwise, podium_rate is null when player_count = 0 and
\* top4 / player_count otherwise, and compute returns a snapshot entry for
\* every faction.
C16_NullOnMissingData ==
    snapshot.done =>
        /\ DOMAIN snapshot.factions = DOMAIN counters
        /\ \A f \in DOMAIN counters :
              LET st == snapshot.factions[f]
                  c == counters[f]
              IN /\ IF c.games_played = 0 THEN st.win_rate.null
                    ELSE SameRatio(st.win_rate, c.wins, c.games_played)
                 /\ IF c.player_count = 0 THEN st.podium_rate.null
                    ELSE SameRatio(st.podium_rate, c.top4, c.player_count)
                 /\ st.tier \in 0..D_TIER

C16_Witness ==
    /\ snapshot.done
    /\ \E f, g \in DOMAIN counters :
          /\ counters[f].player_count = 0
          /\ snapshot.factions[f].win_rate.null
          /\ snapshot.factions[f].podium_rate.null
          /\ counters[g].player_count > 0 /\ counters[g].games_played = 0
          /\ snapshot.factions[g].win_rate.null
          /\ ~snapshot.factions[g].podium_rate.null

---------------------------------------------------------------------------
(* Properties of the client built by createApi *)

Called == call.method # "none"

EndpointKind ==
    [getEvents |-> "Events", getEvent |-> "Event",
     getFactionStats |-> "Meta", getEpochs |-> "Epochs"]

\* C19: for every method, a response with ok = false makes the promise
\* reject with an error naming the endpoint kind and the HTTP status without
\* reading the body; a response with ok = true resolves with the parsed JSON
\* body.
C19_RejectsUnlessOk ==
    Called /\ call.response.arrived =>
        IF call.response.ok
        THEN /\ outcome.state = "resolved"
             /\ outcome.value.total = (IF call.response.body = "{\"total\":3}" THEN 3 ELSE 0)
        ELSE /\ outcome.state = "rejected"
             /\ outcome.error =
                   EndpointKind[call.method] \o " API error: " \o ToString(call.response.status)
             /\ ~outcome.bodyRead

C19_Witness ==
    /\ call.method = "getFactionStats"
    /\ call.response.arrived /\ ~call.response.ok
    /\ outcome.error = "Meta API error: 503"
    /\ outcome.state = "rejected"

\* positions of the URL at which an epoch= parameter starts
EpochParams ==
    { i \in DOMAIN outcome.url : outcome.url[i] \in {"epoch=", "&epoch=", "?epoch="} }

\* percent-escapes of RFC 3986 for the characters of the epoch ids
Escaped(c) ==
    CASE c = "&" -> "%26"
      [] c = " " -> "%20"
      [] OTHER -> c

\* C20: in getEvents, getEvent and getFactionStats the URL carries an epoch=
\* parameter exactly when the epoch argument is non-empty and not 'current';
\* its value is then the URI-encoded epoch id; getEvents without arguments
\* requests exactly '/api/events?page=1&page_size=20'.
C20_EpochParameter ==
    Called /\ call.method # "getEpochs" =>
        /\ EpochParams # {} <=> (Len(call.epoch) > 0 /\ Join(call.epoch) # "current")
        /\ \A i \in EpochParams :
              /\ i + 1 \in DOMAIN outcome.url
              /\ outcome.url[i + 1] =
                    Join([k \in 1..Len(call.epoch) |-> Escaped(call.epoch[k])])
        /\ Cardinality(EpochParams) <= 1
        /\ ( /\ call.method = "getEvents"
             /\ call.page = 0 /\ call.pageSize = 0 /\ call.epoch = <<>>
             /\ call.from = "" /\ call.to = "" /\ ~call.hasResults )
           => Join(outcome.url) = "/api/events?page=1&page_size=20"

C20_Witness ==
    /\ call.method = "getEvents"
    /\ call.epoch = <<"e", "&">>
    /\ call.page = 2
    /\ call.from # ""
    /\ Join(outcome.url) = "/api/events?page=2&page_size=20&epoch=e%26&from=2025-06-15"

---------------------------------------------------------------------------
(* tierLabel and tierColor (static/js/lib/tiers.js)                       *)

MaxProbe == 2     \* indices probed: -MaxProbe .. 4 + MaxProbe

TIER_COLORS == <<"#e05555", "#e0884a", "#c9a84c", "#6a8da6", "#5a5c78">>

TIER_LABELS == <<"S", "A", "B", "C", "D">>

\* the value of reading an array outside its indices
UNDEFINED == "<undefined>"

\* arr[i] of a JavaScript array, indices from 0
ArrayAt(arr, i) == IF i \in 0..(Len(arr) - 1) THEN arr[i + 1] ELSE UNDEFINED

\* the left operand of || is given up when it is undefined or ''
Falsy(v) == v = UNDEFINED \/ v = ""

\* return TIER_COLORS[tierIdx] || TIER_COLORS[4];
tierColor(tierIdx) ==
    IF Falsy(ArrayAt(TIER_COLORS, tierIdx)) THEN ArrayAt(TIER_COLORS, 4)
    ELSE ArrayAt(TIER_COLORS, tierIdx)

LabelOrUndefined(tierIdx) == ArrayAt(TIER_LABELS, tierIdx)

\* return TIER_LABELS[tierIdx] || 'D';
tierLabel(tierIdx) ==
    IF Falsy(ArrayAt(TIER_LABELS, tierIdx)) THEN "D"
    ELSE ArrayAt(TIER_LABELS, tierIdx)

ProbeIndices == (0 - MaxProbe)..(4 + MaxProbe)

InitBadge ==
    /\ factions \in StridedInputs
    /\ qualifying = <<>>
    /\ tiers = <<>>
    /\ pc = "ready"
    /\ ref = NoRef
    /\ InitEpochIdle
    /\ InitAggIdle
    /\ InitApiIdle
    /\ InitUiIdle

\* tierLabel and tierColor applied to every entry of the result of assignTiers
LabelTiers ==
    /\ pc = "done"
    /\ badge.kind = "none"
    /\ badge' = [kind |-> "tiers",
                 label |-> [j \in DOMAIN tiers |-> tierLabel(tiers[j])],
                 color |-> [j \in DOMAIN tiers |-> tierColor(tiers[j])]]
    /\ UNCHANGED <<tierVars, epochVars, aggVars, apiVars, app, net, detail, chart>>

\* tierLabel and tierColor applied to any integer
LabelIndex ==
    /\ badge.kind = "none"
    /\ \E i \in ProbeIndices :
          badge' = [kind |-> "index", idx |-> i,
                    label |-> tierLabel(i), color |-> tierColor(i)]
    /\ UNCHANGED <<tierVars, epochVars, aggVars, apiVars, app, net, detail, chart>>

NextBadge == AssignTiers \/ LabelTiers \/ LabelIndex

SpecBadge == InitBadge /\ [][NextBadge]_vars

---------------------------------------------------------------------------
(* Calls of assignTiers whose arguments differ only in unqualified factions *)

MaxVaryLen == 3   \* longest first list; later lists are at most one longer

VaryQualified == [val : 0..1, count : {QUALIFY_MIN}]

VaryUnqualified == [val : {Missing, 1}, count : {QUALIFY_MIN - 1}]

VaryInputs == SeqsUpTo(VaryQualified \cup VaryUnqualified, MaxVaryLen)

InsertAt(fs, pos, f) == SubSeq(fs, 1, pos) \o <<f>> \o SubSeq(fs, pos + 1, Len(fs))

RemoveAt(fs, pos) == SubSeq(fs, 1, pos - 1) \o SubSeq(fs, pos + 1, Len(fs))

InitVary ==
    /\ factions \in VaryInputs
    /\ qualifying = <<>>
    /\ tiers = <<>>
    /\ pc = "ready"
    /\ ref = NoRef
    /\ InitEpochIdle
    /\ InitAggIdle
    /\ InitApiIdle
    /\ InitUiIdle

\* the first call is the one later calls are compared with
Remember ==
    ref' = IF ref.kind = "none"
           THEN [kind |-> "varied", args |-> factions, result |-> tiers, mid |-> <<>>]
           ELSE ref

\* call again with one more unqualified faction, at any position
CallWithAdded ==
    /\ pc = "done"
    /\ Len(factions) <= MaxVaryLen
    /\ \E pos \in 0..Len(factions), u \in VaryUnqualified :
          Call(InsertAt(factions, pos, u))
    /\ Remember
    /\ UNCHANGED <<epochVars, aggVars, apiVars, uiVars>>

\* call again with one unqualified faction left out
CallWithRemoved ==
    /\ pc = "done"
    /\ \E pos \in 1..Len(factions) :
          /\ ~Qualifies(factions[pos])
          /\ Call(RemoveAt(factions, pos))
    /\ Remember
    /\ UNCHANGED <<epochVars, aggVars, apiVars, uiVars>>

NextVary == AssignTiers \/ CallWithAdded \/ CallWithRemoved

SpecVary == InitVary /\ [][NextVary]_vars

---------------------------------------------------------------------------
(* App (static/js/app.js) with EventList and EventDetail                   *)
(* (static/js/events.js) over window.Api (static/js/api.js).  A request    *)
(* is [id, kind, page, state]; a response and the promise callback it      *)
(* triggers are one step, since nothing of the page runs between them.     *)

MaxTotalPages == 3   \* pages of events the server has
MaxRequests == 3     \* most getEvents requests made by handlePageChange

\* null
Nil == [nil |-> TRUE]

\* what the server returns: GET /api/events?page=p
EventsOf(p) == [events |-> << [id |-> "ev1", page |-> p], [id |-> "ev2", page |-> p] >>,
                pagination |-> [page |-> p, total_pages |-> MaxTotalPages,
                                has_prev |-> p > 1, has_next |-> p < MaxTotalPages]]

\* GET /api/meta/factions?epoch=...: the statistics of one epoch
FactionStatsOf(epoch) == [factions |-> <<"Aeldari", "Orks">>, epoch |-> epoch]

\* Api.getFactionStats() names no epoch: the server answers for the current one
FactionData == FactionStatsOf("current")

\* GET /api/epochs
EpochData ==
    [epochs |-> << [id |-> "e1", is_current |-> FALSE],
                   [id |-> "e2", is_current |-> TRUE] >>]

\* GET /api/events/id
EventData(id) == [id |-> id, placements |-> <<>>]

\* a state cell that may hold null holds Nil or Some(value)
Some(v) == [value |-> v]

\* the useState cells of App after the first render, with loading = true
AppMounted ==
    [mounted |-> TRUE, factions |-> Nil, epochs |-> <<>>, activeEpoch |-> "current",
     events |-> Nil, pagination |-> Nil, page |-> 1, selectedEvent |-> Nil,
     loading |-> TRUE]

Request(i, k, p) == [id |-> i, kind |-> k, page |-> p, state |-> "pending"]

\* Promise.all([Api.getFactionStats(), Api.getEpochs(), Api.getEvents(1, 20)])
InitialRequests ==
    { Request(1, "factions", 0), Request(2, "epochs", 0), Request(3, "events", 1) }

InitialKinds == {"factions", "epochs", "events"}

Initial(reqs) == { r \in reqs : r.kind \in InitialKinds }

SettledWhenAllAnswered(reqs) ==
    IF \E r \in Initial(reqs) : r.state = "pending" THEN "pending"
    ELSE "fulfilled"

\* state of the promise Promise.all returns: rejected with the first failure,
\* fulfilled when all three are
Combined(reqs) ==
    IF \E r \in Initial(reqs) : r.state = "failed" THEN "rejected"
    ELSE IF \A r \in Initial(reqs) : r.state = "ok" THEN "fulfilled"
    ELSE "pending"

Settled(reqs, r, ok) ==
    (reqs \ {r}) \cup {[r EXCEPT !.state = IF ok THEN "ok" ELSE "failed"]}

\* .then(([factionData, epochData, eventData]) => { ... setLoading(false); })
AfterInitialLoad(a) ==
    [a EXCEPT !.factions = Some(FactionData), !.epochs = EpochData.epochs,
              !.events = Some(EventsOf(1).events), !.pagination = EventsOf(1).pagination,
              !.loading = FALSE]

\* .catch(err => { console.error(...); setLoading(false); })
AfterInitialFailure(a) == [a EXCEPT !.loading = FALSE]

InitApp ==
    /\ app = AppMounted
    /\ net = InitialRequests
    /\ detail = Unmounted
    /\ badge = NoBadge
    /\ chart = Unmounted
    /\ InitTiersIdle
    /\ InitEpochIdle
    /\ InitAggIdle
    /\ InitApiIdle

\* one of the three initial requests is answered
InitialResponse ==
    /\ app.mounted
    /\ \E r \in Initial(net), ok \in BOOLEAN :
          /\ r.state = "pending"
          /\ net' = Settled(net, r, ok)
          /\ app' = IF Combined(net) # "pending" THEN app
                    ELSE IF Combined(net') = "fulfilled" THEN AfterInitialLoad(app)
                    ELSE IF Combined(net') = "rejected" THEN AfterInitialFailure(app)
                    ELSE app
    /\ UNCHANGED <<detail, badge, chart, tierVars, epochVars, aggVars, apiVars>>

\* EventList is rendered with its cards
ListShown ==
    /\ app.mounted /\ ~app.loading
    /\ app.selectedEvent = Nil
    /\ app.events # Nil

\* the Prev / Next buttons that are rendered and enabled
PageButtons ==
    IF ListShown /\ app.pagination # Nil /\ app.pagination.total_pages > 1
    THEN (IF app.pagination.has_prev THEN {app.pagination.page - 1} ELSE {})
         \cup (IF app.pagination.has_next THEN {app.pagination.page + 1} ELSE {})
    ELSE {}

PageRequests(reqs) == { r \in reqs : r.kind = "page" }

PageChangeLoading(a, newPage) == [a EXCEPT !.page = newPage, !.loading = TRUE]

\* setPage(newPage);
PageChange(a, newPage) == [a EXCEPT !.page = newPage]

\* handlePageChange(newPage)
HandlePageChange ==
    /\ Cardinality(PageRequests(net)) < MaxRequests
    /\ \E newPage \in PageButtons :
          /\ app' = PageChange(app, newPage)
          /\ net' = net \cup {Request(Cardinality(net) + 1, "page", newPage)}
    /\ UNCHANGED <<detail, badge, chart, tierVars, epochVars, aggVars, apiVars>>

\* .then(data => { setEvents(data.events); setPagination(data.pagination); })
AfterEvents(a, data) ==
    [a EXCEPT !.events = Some(data.events), !.pagination = data.pagination]

ClearedOnFailure(a) == [a EXCEPT !.events = Nil, !.pagination = Nil]

\* the promise of handlePageChange has no catch
AfterEventsFailure(a) == a

\* a getEvents request of handlePageChange is answered
PageResponse ==
    /\ app.mounted
    /\ \E r \in PageRequests(net), ok \in BOOLEAN :
          /\ r.state = "pending"
          /\ net' = Settled(net, r, ok)
          /\ app' = IF ok THEN AfterEvents(app, EventsOf(r.page))
                    ELSE AfterEventsFailure(app)
    /\ UNCHANGED <<detail, badge, chart, tierVars, epochVars, aggVars, apiVars>>

\* EventDetail after its first render and effect: the request is on its way
DetailMounted(id) ==
    [mounted |-> TRUE, eventId |-> id, event |-> Nil, loading |-> TRUE,
     request |-> "pending"]

\* handleSelectEvent(id) from a card of EventList; EventDetail is mounted
HandleSelectEvent ==
    /\ ListShown
    /\ \E i \in DOMAIN app.events.value :
          /\ app' = [app EXCEPT !.selectedEvent = Some(app.events.value[i].id)]
          /\ detail' = DetailMounted(app.events.value[i].id)
    /\ UNCHANGED <<net, badge, chart, tierVars, epochVars, aggVars, apiVars>>

DetailFailureKeepsLoading(d) == [d EXCEPT !.request = "failed"]

\* .catch(err => { console.error(err); setLoading(false); })
AfterDetailFailure(d) == [d EXCEPT !.loading = FALSE, !.request = "failed"]

\* .then(data => { setEvent(data); setLoading(false); })
AfterDetail(d, data) == [d EXCEPT !.event = data, !.loading = FALSE, !.request = "ok"]

\* the getEvent request of EventDetail is answered
DetailResponse ==
    /\ detail.mounted
    /\ detail.request = "pending"
    /\ \E ok \in BOOLEAN :
          detail' = IF ok THEN AfterDetail(detail, EventData(detail.eventId))
                    ELSE AfterDetailFailure(detail)
    /\ UNCHANGED <<app, net, badge, chart, tierVars, epochVars, aggVars, apiVars>>

\* the Back button exists only in the view of a loaded event
HandleBack ==
    /\ app.mounted /\ ~app.loading
    /\ detail.mounted /\ ~detail.loading /\ detail.event # Nil
    /\ app' = [app EXCEPT !.selectedEvent = Nil]
    /\ detail' = Unmounted
    /\ UNCHANGED <<net, badge, chart, tierVars, epochVars, aggVars, apiVars>>

EpochClickResets(a, id) == [a EXCEPT !.activeEpoch = id, !.page = 1]

\* onClick={() => setActiveEpoch(epoch.id)}
EpochClick(a, id) == [a EXCEPT !.activeEpoch = id]

\* a click on an epoch pill
ClickEpoch ==
    /\ app.mounted /\ ~app.loading
    /\ \E i \in DOMAIN app.epochs :
          /\ app.activeEpoch # app.epochs[i].id
          /\ app' = EpochClick(app, app.epochs[i].id)
    /\ UNCHANGED <<net, detail, badge, chart, tierVars, epochVars, aggVars, apiVars>>

NextApp ==
    \/ InitialResponse
    \/ HandlePageChange
    \/ PageResponse
    \/ HandleSelectEvent
    \/ DetailResponse
    \/ HandleBack
    \/ ClickEpoch

SpecApp == InitApp /\ [][NextApp]_vars

---------------------------------------------------------------------------
(* FactionChart (static/js/chart.js).  The component is followed through   *)
(* its effect: on mount, on every new factions array, and its cleanup on   *)
(* update and unmount.  A Chart is [plotted, destroyed]; chartInstance is  *)
(* the index of the Chart the ref holds, 0 for null.                       *)

MaxCharts == 3   \* most Chart instances created in one run
MaxExtra == 1    \* factions beyond the plotted ones
TOP == 15

\* an array of n factions
FactionArray(n) == [i \in 1..n |-> i]

ChartLengths == {0, 1, TOP - 1} \cup (TOP..(TOP + MaxExtra))

\* the factions prop: null or an array
ChartInputs == {Nil} \cup { Some(FactionArray(n)) : n \in ChartLengths }

\* arr.slice(from, to)
Slice(arr, from, to) ==
    SubSeq(arr, from + 1, IF to < Len(arr) THEN to ELSE Len(arr))

\* the component after its first render, before its effect
ChartRendered(f) ==
    [mounted |-> TRUE, factions |-> f, chartInstance |-> 0, charts |-> <<>>,
     cleanup |-> FALSE]

KeepCurrent(c) == c

\* if (chartInstance.current) chartInstance.current.destroy();
DestroyCurrent(c) ==
    IF c.chartInstance = 0 THEN c
    ELSE [c EXCEPT !.charts[c.chartInstance].destroyed = TRUE]

\* chartInstance.current = new Chart(ctx, { ... labels: top.map(...) ... })
NewChart(c, top) ==
    [c EXCEPT !.charts = Append(c.charts, [plotted |-> top, destroyed |-> FALSE]),
              !.chartInstance = Len(c.charts) + 1]

\* the body of the effect; cleanup says whether it returned its function
Effect(c) ==
    IF c.factions = Nil \/ Len(c.factions.value) = 0
    THEN [c EXCEPT !.cleanup = FALSE]
    ELSE [NewChart(DestroyCurrent(c), Slice(c.factions.value, 0, TOP))
            EXCEPT !.cleanup = TRUE]

\* the function the previous run of the effect returned, if it returned one
Cleanup(c) == IF c.cleanup THEN DestroyCurrent(c) ELSE c

InitChart ==
    /\ chart \in { Effect(ChartRendered(f)) : f \in ChartInputs }
    /\ app = Unmounted
    /\ net = {}
    /\ detail = Unmounted
    /\ badge = NoBadge
    /\ InitTiersIdle
    /\ InitEpochIdle
    /\ InitAggIdle
    /\ InitApiIdle

\* a render with a new factions array: cleanup of the last effect, then the effect
UpdateFactions ==
    /\ chart.mounted
    /\ Len(chart.charts) < MaxCharts
    /\ \E f \in ChartInputs :
          chart' = Effect([Cleanup(chart) EXCEPT !.factions = f])
    /\ UNCHANGED <<app, net, detail, badge, tierVars, epochVars, aggVars, apiVars>>

\* the component is removed: cleanup of the last effect
UnmountChart ==
    /\ chart.mounted
    /\ chart' = [Cleanup(chart) EXCEPT !.mounted = FALSE]
    /\ UNCHANGED <<app, net, detail, badge, tierVars, epochVars, aggVars, apiVars>>

NextChart == UpdateFactions \/ UnmountChart

SpecChart == InitChart /\ [][NextChart]_vars

---------------------------------------------------------------------------
(* Properties of tierLabel and tierColor *)

FiveLabels == {"S", "A", "B", "C", "D"}

FiveColors == {"#e05555", "#e0884a", "#c9a84c", "#6a8da6", "#5a5c78"}

\* C21: tierLabel and tierColor return the entry of TIER_LABELS / TIER_COLORS
\* for every index in 0..4 and the D-tier label and colour for every other
\* index, so applied to any output of assignTiers they give one of the five
\* labels and colours.
C21_LabelAndColor ==
    /\ badge.kind = "index" =>
          /\ badge.idx \in 0..4 =>
                /\ badge.label = TIER_LABELS[badge.idx + 1]
                /\ badge.color = TIER_COLORS[badge.idx + 1]
          /\ badge.idx \notin 0..4 =>
                /\ badge.label = "D"
                /\ badge.color = "#5a5c78"
    /\ badge.kind = "tiers" =>
          /\ DOMAIN badge.label = 0..(Len(factions) - 1)
          /\ \A j \in DOMAIN badge.label :
                /\ badge.label[j] \in FiveLabels
                /\ badge.color[j] \in FiveColors
                /\ badge.label[j] = TIER_LABELS[tiers[j] + 1]
                /\ badge.color[j] = TIER_COLORS[tiers[j] + 1]

C21_Witness ==
    /\ badge.kind = "index"
    /\ badge.idx = 0 - 1
    /\ badge.label = "D"
    /\ badge.color = "#5a5c78"
    /\ pc = "done"

\* C22: of two qualifying factions the one with the strictly greater value
\* is never in a worse tier.
C22_MonotoneInValue ==
    pc = "done" =>
        \A i, j \in QualPos :
            (factions[i].val >= 0 /\ factions[j].val >= 0
                /\ factions[i].val > factions[j].val)
              => tiers[i - 1] <= tiers[j - 1]

\* the tiers of the factions with count >= 3, in input order
QualTiersOf(fs, t) ==
    LET q == SelectSeq(Items(fs), LAMBDA it : it.count >= 3)
    IN [k \in 1..Len(q) |-> t[q[k].idx]]

\* C23: adding or removing any number of factions with count < 3, at any
\* positions and with any values, leaves the tier of every qualifying faction
\* unchanged.
C23_UnqualifiedInert ==
    (pc = "done" /\ ref.kind = "varied") =>
        QualTiersOf(factions, tiers) = QualTiersOf(ref.args, ref.result)

\* three qualifying factions of three different tiers, and in front of them
\* an added unqualified faction with a higher value
C23_Witness ==
    /\ pc = "done"
    /\ ref.kind = "varied"
    /\ NumQual = 3
    /\ Len(ref.args) = 3
    /\ Len(factions) = 4
    /\ factions # ref.args
    /\ factions[1].count < 3
    /\ factions[1].val > factions[2].val
    /\ { tiers[i - 1] : i \in QualPos } = {0, 2, 4}

---------------------------------------------------------------------------
(* Properties of App, EventList and EventDetail *)

\* every getEvents request of handlePageChange has been answered successfully
PageRequestsAnswered ==
    /\ PageRequests(net) # {}
    /\ \A r \in PageRequests(net) : r.state = "ok"

\* C24: once the responses to several page changes have all arrived, in
\* whatever order, the events and pagination displayed are those of the page
\* requested last, which is the page the page state holds.
C24_LastRequestWins ==
    (app.mounted /\ Cardinality(PageRequests(net)) >= 2 /\ PageRequestsAnswered)
        => /\ app.pagination = EventsOf(app.page).pagination
           /\ app.events = Some(EventsOf(app.page).events)

InitialFailed == \E r \in Initial(net) : r.state = "failed"

InitialAllOk == \A r \in Initial(net) : r.state = "ok"

NothingLoaded ==
    /\ app.factions = Nil
    /\ app.epochs = <<>>
    /\ app.events = Nil
    /\ app.pagination = Nil

AllLoaded ==
    /\ app.factions = Some(FactionData)
    /\ app.epochs = EpochData.epochs
    /\ app.events # Nil
    /\ app.pagination # Nil

\* C25: the initial load is all-or-nothing.  The four cells are loaded
\* exactly when all three initial requests have succeeded; while one is
\* outstanding, and for ever once one has failed, all four hold their initial
\* values, whatever the other requests returned.
C25_AllOrNothing ==
    app.mounted =>
        /\ InitialAllOk => AllLoaded
        /\ ~InitialAllOk => NothingLoaded
        /\ InitialFailed => NothingLoaded

\* one request failed, the other two succeeded, and nothing was stored
C25_Witness ==
    /\ app.mounted
    /\ Cardinality({ r \in Initial(net) : r.state = "failed" }) = 1
    /\ Cardinality({ r \in Initial(net) : r.state = "ok" }) = 2
    /\ ~app.loading
    /\ NothingLoaded


\* the promise of the combined initial request is still pending: nothing
\* failed and something is outstanding
InitialOutstanding == ~InitialFailed /\ ~InitialAllOk

\* C26: loading is true exactly while the combined initial request is
\* pending, so it is false after success and after failure alike, and no
\* later step (page change, epoch click, selection, back, any response) sets
\* it back to true.
C26_LoadingOnce ==
    /\ [](app.mounted => (app.loading <=> InitialOutstanding))
    /\ [][(app.mounted /\ ~app.loading) => ~app'.loading]_vars

\* loading has ended and the user has changed page, clicked an epoch and
\* selected an event since
C26_Witness ==
    /\ app.mounted /\ ~app.loading
    /\ PageRequests(net) # {}
    /\ app.activeEpoch # "current"
    /\ app.selectedEvent # Nil


\* the request issued by the latest handlePageChange
LastPageRequest == CHOOSE r \in PageRequests(net) : \A q \in PageRequests(net) : q.id <= r.id

\* this step is the failure of request r
Fails(r) == r.state = "pending" /\ [r EXCEPT !.state = "failed"] \in net'

\* C27: the failure of a getEvents request of handlePageChange changes no
\* state cell: events and pagination stay as displayed and loading stays
\* false.  When every such request has failed the list still shows the
\* initial page 1 while page holds the number requested last.
C27_PageFailureKeepsList ==
    /\ [][\A r \in PageRequests(net) : Fails(r) => app' = app]_vars
    /\ [](( /\ app.mounted
            /\ PageRequests(net) # {}
            /\ \A r \in PageRequests(net) : r.state = "failed" )
          => /\ app.events = Some(EventsOf(1).events)
             /\ app.pagination = EventsOf(1).pagination
             /\ ~app.loading
             /\ app.page = LastPageRequest.page)

\* the request for page 2 failed: page 1 is still listed, page says 2
C27_Witness ==
    /\ app.mounted /\ ~app.loading
    /\ Cardinality(PageRequests(net)) = 1
    /\ \A r \in PageRequests(net) : r.state = "failed" /\ r.page = 2
    /\ app.page = 2
    /\ app.pagination = EventsOf(1).pagination
    /\ app.events = Some(EventsOf(1).events)


\* C29: a step that changes activeEpoch changes nothing else: no request is
\* issued or answered, and factions, epochs, events, pagination, page,
\* selectedEvent and loading keep their values.  The statistics held are
\* therefore always those of the initial load, made for the current epoch.
C29_EpochClickOnlyActiveEpoch ==
    /\ [][(app.mounted /\ app'.activeEpoch # app.activeEpoch)
            => /\ net' = net
               /\ detail' = detail
               /\ app' = [app EXCEPT !.activeEpoch = app'.activeEpoch]]_vars
    /\ []((app.mounted /\ app.factions # Nil) => app.factions = Some(FactionStatsOf("current")))

\* an older epoch is selected on page 2 and the statistics are the initial ones
C29_Witness ==
    /\ app.mounted /\ ~app.loading
    /\ app.activeEpoch = "e1"
    /\ app.page = 2
    /\ app.pagination = EventsOf(2).pagination
    /\ app.factions = Some(FactionData)


\* what EventDetail renders
DetailView ==
    IF detail.loading THEN "spinner"
    ELSE IF detail.event = Nil THEN "Event not found"
    ELSE "event"

\* C28: a mounted EventDetail shows the spinner exactly while its getEvent
\* request is pending; it holds an event only after a successful response,
\* and then the event of its eventId; after a failed request it shows
\* 'Event not found', not the spinner.
C28_DetailLifecycle ==
    detail.mounted =>
        /\ detail.loading <=> detail.request = "pending"
        /\ detail.event # Nil =>
              (detail.request = "ok" /\ detail.event = EventData(detail.eventId))
        /\ detail.request = "ok" => DetailView = "event"
        /\ detail.request = "failed" => DetailView = "Event not found"

\* the request for the selected event failed and the component says so
C28_Witness ==
    /\ detail.mounted
    /\ app.selectedEvent = Some(detail.eventId)
    /\ detail.request = "failed"
    /\ ~detail.loading
    /\ detail.event = Nil


---------------------------------------------------------------------------
(* Properties of FactionChart *)

\* the Chart instances that are not destroyed
LiveCharts == { i \in DOMAIN chart.charts : ~chart.charts[i].destroyed }

\* C30: at most one Chart is live at any time, and it is the one the ref
\* holds, made from the current factions; a step that creates a Chart leaves
\* every earlier one destroyed; after unmount none is live; every Chart
\* plots a prefix of at most 15 factions.
C30_OneLiveChart ==
    /\ [](/\ Cardinality(LiveCharts) <= 1
          /\ \A i \in LiveCharts :
                /\ chart.mounted
                /\ i = chart.chartInstance
                /\ chart.factions # Nil
                /\ chart.charts[i].plotted = Slice(chart.factions.value, 0, TOP)
          /\ ~chart.mounted => LiveCharts = {}
          /\ \A i \in DOMAIN chart.charts :
                /\ Len(chart.charts[i].plotted) <= TOP
                /\ chart.charts[i].plotted = FactionArray(Len(chart.charts[i].plotted)))
    /\ [][Len(chart'.charts) > Len(chart.charts)
            => \A i \in DOMAIN chart.charts : chart'.charts[i].destroyed]_vars

\* a third Chart, made from more than 15 factions, is the only live one
C30_Witness ==
    /\ chart.mounted
    /\ Len(chart.charts) = 3
    /\ LiveCharts = {3}
    /\ Len(chart.factions.value) > TOP
    /\ Len(chart.charts[3].plotted) = TOP


=============================================================================
